---------------------------- MODULE Spec2Model ----------------------------
(***************************************************************************)
(* A model of the MOEX ISS client (src/src/moex-api.ts): the three public  *)
(* operations getSecurities, getMarketData and getTradingSessions.  Each   *)
(* call builds a URL, awaits fetch(url), checks response.ok, awaits        *)
(* response.json() and decodes the column/row table into records; every    *)
(* failure on the way is caught and rethrown as one wrapped Error.         *)
(*                                                                         *)
(* A call is a process with a position (pc): the two awaits are the only   *)
(* places where it can be suspended, so every action below is one          *)
(* synchronous run of the code between two awaits.                         *)
(***************************************************************************)
EXTENDS Integers, Sequences, FiniteSets, TLC

(***************************************************************************)
(* Bounds of the model.                                                    *)
(***************************************************************************)
\* number of call slots (calls that can be in flight at once)
NCalls == 2
\* longest `columns` array of a response
MaxCols == 2
\* longest row of a response
MaxRowLen == 2
\* largest number of rows in `data`
MaxRows == 2
\* largest number of cells in `data`, all rows together
MaxCells == 4

Calls == 1..NCalls

(***************************************************************************)
(* Enumerations and constants of the program.                              *)
(***************************************************************************)
MOEX_API_BASE_URL == "https://iss.moex.com/iss"

Engine == {"stock", "state", "currency", "futures", "commodity", "interventions"}

Market == {"shares", "bonds", "ndm", "otc", "ccp", "deposit", "repo", "qnv",
           "mamc", "foreignexchange", "selt", "psdb", "mixed"}

Engine_STOCK == "stock"

Market_SHARES == "shares"

DefaultLimit == 100

\* The fields of interface Security, in declaration order.
SecurityFields ==
    << "SECID", "BOARDID", "SHORTNAME", "PREVPRICE", "LOTSIZE", "FACEVALUE",
       "STATUS", "BOARDNAME", "DECIMALS", "SECNAME", "REMARKS", "MARKETCODE",
       "INSTRID", "SECTORID", "MINSTEP", "PREVWAPRICE", "FACEUNIT", "PREVDATE",
       "ISSUESIZE", "ISIN", "LATNAME", "REGNUMBER", "PREVLEGALCLOSEPRICE",
       "CURRENCYID", "SECTYPE", "LISTLEVEL", "SETTLEDATE" >>

Operations == {"getSecurities", "getMarketData", "getTradingSessions"}

(***************************************************************************)
(* Arguments.  A parameter with a default takes the default exactly when   *)
(* the caller leaves it out (passes undefined).                            *)
(***************************************************************************)
Given(v) == [given |-> TRUE, v |-> v]

OmittedString == [given |-> FALSE, v |-> ""]

OmittedNumber == [given |-> FALSE, v |-> 0]

DefaultParam(arg, default) == IF arg.given THEN arg.v ELSE default

(***************************************************************************)
(* URL templates (template literals: the values are interpolated as they   *)
(* are, a number by its decimal text).                                     *)
(***************************************************************************)
\* Variant of SecuritiesUrl whose query lacks `start=0`.
SecuritiesUrlNoStart(engine, market, limit) ==
    MOEX_API_BASE_URL \o "/engines/" \o engine \o "/markets/" \o market
      \o "/securities.json?iss.meta=off&iss.only=securities&securities.columns=SECID,BOARDID,SHORTNAME,PREVPRICE,LOTSIZE,FACEVALUE,STATUS,BOARDNAME,DECIMALS,SECNAME,REMARKS,MARKETCODE,INSTRID,SECTORID,MINSTEP,PREVWAPRICE,FACEUNIT,PREVDATE,ISSUESIZE,ISIN,LATNAME,REGNUMBER,PREVLEGALCLOSEPRICE,CURRENCYID,SECTYPE,LISTLEVEL,SETTLEDATE&limit="
      \o ToString(limit)

SecuritiesUrl(engine, market, limit) ==
    MOEX_API_BASE_URL \o "/engines/" \o engine \o "/markets/" \o market
      \o "/securities.json?iss.meta=off&iss.only=securities&securities.columns=SECID,BOARDID,SHORTNAME,PREVPRICE,LOTSIZE,FACEVALUE,STATUS,BOARDNAME,DECIMALS,SECNAME,REMARKS,MARKETCODE,INSTRID,SECTORID,MINSTEP,PREVWAPRICE,FACEUNIT,PREVDATE,ISSUESIZE,ISIN,LATNAME,REGNUMBER,PREVLEGALCLOSEPRICE,CURRENCYID,SECTYPE,LISTLEVEL,SETTLEDATE&start=0&limit="
      \o ToString(limit)

\* Variant of MarketDataUrl whose query lacks `iss.only=marketdata`.
MarketDataUrlAllBlocks(secid, engine, market) ==
    MOEX_API_BASE_URL \o "/engines/" \o engine \o "/markets/" \o market
      \o "/securities/" \o secid \o ".json?iss.meta=off"

MarketDataUrl(secid, engine, market) ==
    MOEX_API_BASE_URL \o "/engines/" \o engine \o "/markets/" \o market
      \o "/securities/" \o secid \o ".json?iss.meta=off&iss.only=marketdata"

\* Variant of TradingSessionsUrl with engine and market exchanged.
TradingSessionsUrlSwapped(engine, market) ==
    MOEX_API_BASE_URL \o "/engines/" \o market \o "/markets/" \o engine
      \o "/sessions.json?iss.meta=off"

TradingSessionsUrl(engine, market) ==
    MOEX_API_BASE_URL \o "/engines/" \o engine \o "/markets/" \o market
      \o "/sessions.json?iss.meta=off"

\* encodeURIComponent, on the strings of the inputs below: letters and
\* digits stay, the other characters are percent-encoded.
EncodeURIComponent(s) ==
    CASE s = "a/b" -> "a%2Fb"
      [] s = "x y?&=%" -> "x%20y%3F%26%3D%25"
      [] s = "../a?b=1&c" -> "..%2Fa%3Fb%3D1%26c"
      [] OTHER -> s

\* Variant of BuildUrl that encodes engine, market and secid for the path.
BuildUrlEncoded(operation, a) ==
    LET engine == EncodeURIComponent(DefaultParam(a.engine, Engine_STOCK))
        market == EncodeURIComponent(DefaultParam(a.market, Market_SHARES))
    IN  CASE operation = "getSecurities" ->
               SecuritiesUrl(engine, market, DefaultParam(a.limit, DefaultLimit))
          [] operation = "getMarketData" ->
               MarketDataUrl(EncodeURIComponent(a.secid), engine, market)
          [] OTHER ->
               TradingSessionsUrl(engine, market)

\* Variant of BuildUrl that takes the default of limit with `limit || 100`.
BuildUrlLimitFalsy(operation, a) ==
    LET engine == DefaultParam(a.engine, Engine_STOCK)
        market == DefaultParam(a.market, Market_SHARES)
    IN  CASE operation = "getSecurities" ->
               SecuritiesUrl(engine, market,
                             IF a.limit.given /\ a.limit.v # 0
                               THEN a.limit.v ELSE DefaultLimit)
          [] operation = "getMarketData" ->
               MarketDataUrl(a.secid, engine, market)
          [] OTHER ->
               TradingSessionsUrl(engine, market)

\* The URL a call passes to fetch, after default substitution.
BuildUrl(operation, a) ==
    LET engine == DefaultParam(a.engine, Engine_STOCK)
        market == DefaultParam(a.market, Market_SHARES)
    IN  CASE operation = "getSecurities" ->
               SecuritiesUrl(engine, market, DefaultParam(a.limit, DefaultLimit))
          [] operation = "getMarketData" ->
               MarketDataUrl(a.secid, engine, market)
          [] OTHER ->
               TradingSessionsUrl(engine, market)

(***************************************************************************)
(* JSON values of a table cell, and the JavaScript value undefined (what   *)
(* reading past the end of a row gives).                                   *)
(***************************************************************************)
StringValue(s) == [type |-> "string", s |-> s, n |-> 0]

NumberValue(n) == [type |-> "number", s |-> "", n |-> n]

NullValue == [type |-> "null", s |-> "", n |-> 0]

Undefined == [type |-> "undefined", s |-> "", n |-> 0]


JsonValues == {StringValue("SBER"), NumberValue(250), NullValue}

(***************************************************************************)
(* The wire shape.  A body is the parsed JSON: null, or an object holding  *)
(* at most one block under `key` ("none": the object {}).  A block (table) *)
(* may lack `columns` and may lack `data`; an element of `data` is an      *)
(* array of cells or null.                                                 *)
(***************************************************************************)
ColumnNames == {"SECID", "BOARDID"}

ResourceKeys == {"securities", "marketdata", "sessions"}

SeqsUpTo(S, n) == UNION {[1..k -> S] : k \in 0..n}

AbsentColumns == [present |-> FALSE, items |-> <<>>]

ColumnsOf(items) == [present |-> TRUE, items |-> items]

NullRow == [kind |-> "null", items |-> <<>>]

ArrayRow(items) == [kind |-> "array", items |-> items]

AbsentData == [present |-> FALSE, rows |-> <<>>]

DataOf(rows) == [present |-> TRUE, rows |-> rows]

TableOf(columns, data) == [columns |-> columns, data |-> data]

NoTable == TableOf(AbsentColumns, AbsentData)

NoBody == [kind |-> "none", key |-> "none", table |-> NoTable]

NullBody == [kind |-> "null", key |-> "none", table |-> NoTable]

EmptyObjectBody == [kind |-> "object", key |-> "none", table |-> NoTable]

UnexpectedBody == [kind |-> "object", key |-> "unexpected", table |-> NoTable]

TableBody(key, table) == [kind |-> "object", key |-> key, table |-> table]

AllColumns ==
    {AbsentColumns} \cup {ColumnsOf(s) : s \in SeqsUpTo(ColumnNames, MaxCols)}

AllRows == {NullRow} \cup {ArrayRow(s) : s \in SeqsUpTo(JsonValues, MaxRowLen)}

RECURSIVE CellCount(_)
CellCount(rows) ==
    IF rows = <<>> THEN 0 ELSE Len(Head(rows).items) + CellCount(Tail(rows))

AllData ==
    {AbsentData}
      \cup {DataOf(s) : s \in {d \in SeqsUpTo(AllRows, MaxRows) : CellCount(d) <= MaxCells}}

AllTables == {TableOf(c, d) : c \in AllColumns, d \in AllData}

(***************************************************************************)
(* Thrown values and the completion of a synchronous run of code: it       *)
(* either returns a value (an array of records, one record, or null) or    *)
(* throws.                                                                 *)
(***************************************************************************)
ErrorOf(message) == [isError |-> TRUE, message |-> message]

NonErrorThrown == [isError |-> FALSE, message |-> "thrown string"]

NoError == [isError |-> FALSE, message |-> ""]

TypeErrorOf(message) == ErrorOf(message)

Returned(kind, records) ==
    [thrown |-> FALSE, kind |-> kind, records |-> records, error |-> NoError]

Thrown(e) == [thrown |-> TRUE, kind |-> "error", records |-> <<>>, error |-> e]

(***************************************************************************)
(* The table decoder.                                                      *)
(***************************************************************************)
\* Variant of Cell with a coercion: String(row[index]) for a number.
CellAsString(row, index) ==
    IF index <= Len(row.items)
      THEN IF row.items[index].type = "number"
             THEN StringValue(ToString(row.items[index].n))
             ELSE row.items[index]
      ELSE Undefined

\* row[index] (index counted from 1 here): undefined past the end of the row.
Cell(row, index) ==
    IF index <= Len(row.items) THEN row.items[index] ELSE Undefined

\* Variant of Assign that keeps the value a key already has
\* (if (!(key in object)) object[key] = value).
AssignIfNew(object, key, value) ==
    [k \in (DOMAIN object) \cup {key} |->
        IF k \in DOMAIN object THEN object[k] ELSE value]

\* object[key] = value
Assign(object, key, value) ==
    [k \in (DOMAIN object) \cup {key} |-> IF k = key THEN value ELSE object[k]]

EmptyObject == [k \in {} |-> Undefined]

\* Variant of ForEachColumn that stops at the end of the row (a zip to the
\* shorter length).
RECURSIVE ForEachColumnZip(_, _, _, _)
ForEachColumnZip(columns, row, index, record) ==
    IF index > Len(columns) \/ index > Len(row.items)
      THEN record
      ELSE ForEachColumnZip(columns, row, index + 1,
                            Assign(record, columns[index], Cell(row, index)))

\* columns.forEach((column, index) => { record[column] = row[index]; })
RECURSIVE ForEachColumn(_, _, _, _)
ForEachColumn(columns, row, index, record) ==
    IF index > Len(columns)
      THEN record
      ELSE ForEachColumn(columns, row, index + 1,
                         Assign(record, columns[index], Cell(row, index)))

\* One row against `columns`: columns.forEach throws when `columns` is
\* undefined, and row[index] throws when the row is null.
DecodeRow(columns, row) ==
    IF ~columns.present
      THEN Thrown(TypeErrorOf("Cannot read properties of undefined (reading 'forEach')"))
    ELSE IF row.kind = "null" /\ Len(columns.items) > 0
      THEN Thrown(TypeErrorOf("Cannot read properties of null (reading '0')"))
    ELSE Returned("record", <<ForEachColumn(columns.items, row, 1, EmptyObject)>>)

\* Variant of MapRows that puts each new record in front (unshift for push).
RECURSIVE MapRowsUnshift(_, _, _, _)
MapRowsUnshift(columns, rows, k, acc) ==
    IF k > Len(rows)
      THEN Returned("array", acc)
      ELSE LET r == DecodeRow(columns, rows[k])
           IN  IF r.thrown THEN r
               ELSE MapRowsUnshift(columns, rows, k + 1, <<r.records[1]>> \o acc)

\* Variant of MapRows that stops at the first row that throws and returns the
\* records made so far.
RECURSIVE MapRowsPartial(_, _, _, _)
MapRowsPartial(columns, rows, k, acc) ==
    IF k > Len(rows)
      THEN Returned("array", acc)
      ELSE LET r == DecodeRow(columns, rows[k])
           IN  IF r.thrown THEN Returned("array", acc)
               ELSE MapRowsPartial(columns, rows, k + 1, Append(acc, r.records[1]))

\* Variant of MapRows that takes the first row for a header and skips it.
RECURSIVE MapRowsSkipHeader(_, _, _, _)
MapRowsSkipHeader(columns, rows, k, acc) ==
    IF k > Len(rows)
      THEN Returned("array", acc)
      ELSE IF k = 1
        THEN MapRowsSkipHeader(columns, rows, 2, acc)
        ELSE LET r == DecodeRow(columns, rows[k])
             IN  IF r.thrown THEN r
                 ELSE MapRowsSkipHeader(columns, rows, k + 1, Append(acc, r.records[1]))

\* rows.map(row => ...): the rows in order; a throw leaves map without a value.
RECURSIVE MapRows(_, _, _, _)
MapRows(columns, rows, k, acc) ==
    IF k > Len(rows)
      THEN Returned("array", acc)
      ELSE LET r == DecodeRow(columns, rows[k])
           IN  IF r.thrown THEN r
               ELSE MapRows(columns, rows, k + 1, Append(acc, r.records[1]))

\* data[key] is truthy
HasResource(body, key) == body.kind = "object" /\ body.key = key

\* Variant of DecodeMany without the `!data[key]` test: reading `.data` of
\* the missing block throws.
DecodeManyNoKeyCheck(body, key) ==
    IF body.kind = "null"
      THEN Thrown(TypeErrorOf("Cannot read properties of null (reading '" \o key \o "')"))
    ELSE IF ~HasResource(body, key)
      THEN Thrown(TypeErrorOf("Cannot read properties of undefined (reading 'data')"))
    ELSE IF ~body.table.data.present
      THEN Returned("array", <<>>)
    ELSE MapRows(body.table.columns, body.table.data.rows, 1, <<>>)

\* The code of getSecurities and getTradingSessions after `await response.json()`.
DecodeMany(body, key) ==
    IF body.kind = "null"
      THEN Thrown(TypeErrorOf("Cannot read properties of null (reading '" \o key \o "')"))
    ELSE IF ~HasResource(body, key) \/ ~body.table.data.present
      THEN Returned("array", <<>>)
    ELSE MapRows(body.table.columns, body.table.data.rows, 1, <<>>)

\* Variant of DecodeOne without the `data.length === 0` test: data[0] is
\* undefined, so reading a cell throws, and with no columns an empty object
\* is returned.
DecodeOneNoLengthCheck(body) ==
    IF body.kind = "null"
      THEN Thrown(TypeErrorOf("Cannot read properties of null (reading 'marketdata')"))
    ELSE IF ~HasResource(body, "marketdata") \/ ~body.table.data.present
      THEN Returned("null", <<>>)
    ELSE IF Len(body.table.data.rows) = 0
      THEN IF ~body.table.columns.present
             THEN Thrown(TypeErrorOf("Cannot read properties of undefined (reading 'forEach')"))
           ELSE IF Len(body.table.columns.items) > 0
             THEN Thrown(TypeErrorOf("Cannot read properties of undefined (reading '0')"))
           ELSE Returned("record", <<EmptyObject>>)
    ELSE DecodeRow(body.table.columns, body.table.data.rows[1])

\* Variant of DecodeOne that decodes the last row of `data` (the latest
\* one) instead of data[0].
DecodeOneLastRow(body) ==
    IF body.kind = "null"
      THEN Thrown(TypeErrorOf("Cannot read properties of null (reading 'marketdata')"))
    ELSE IF \/ ~HasResource(body, "marketdata")
            \/ ~body.table.data.present
            \/ Len(body.table.data.rows) = 0
      THEN Returned("null", <<>>)
    ELSE DecodeRow(body.table.columns, body.table.data.rows[Len(body.table.data.rows)])

\* The code of getMarketData after `await response.json()`.
DecodeOne(body) ==
    IF body.kind = "null"
      THEN Thrown(TypeErrorOf("Cannot read properties of null (reading 'marketdata')"))
    ELSE IF \/ ~HasResource(body, "marketdata")
            \/ ~body.table.data.present
            \/ Len(body.table.data.rows) = 0
      THEN Returned("null", <<>>)
    ELSE DecodeRow(body.table.columns, body.table.data.rows[1])

ResourceKey(operation) ==
    CASE operation = "getSecurities" -> "securities"
      [] operation = "getMarketData" -> "marketdata"
      [] OTHER -> "sessions"

Decode(operation, body) ==
    IF operation = "getMarketData"
      THEN DecodeOne(body)
      ELSE DecodeMany(body, ResourceKey(operation))

\* Variant of BodyAfterDecode for a decoder that takes the rows off `data`
\* one by one (rows.shift()) while it decodes the listing.
BodyAfterDecodeShift(operation, b) ==
    IF operation # "getMarketData" /\ HasResource(b, ResourceKey(operation))
         /\ b.table.data.present /\ b.table.columns.present
      THEN [b EXCEPT !.table.data.rows = <<>>]
      ELSE b

\* The parsed body after the code has run on it.  The code reads it with
\* data[key], .columns, .data, rows.map, columns.forEach and row[index];
\* its one assignment, record[column] = row[index], writes to the record
\* created for the row.  None of these writes to the body.
BodyAfterDecode(operation, b) == b

(***************************************************************************)
(* The catch block of each operation.                                      *)
(***************************************************************************)
ErrorPrefix(operation, a) ==
    CASE operation = "getSecurities" -> "Failed to fetch securities: "
      [] operation = "getMarketData" ->
           "Failed to fetch market data for " \o a.secid \o ": "
      [] OTHER -> "Failed to fetch trading sessions: "

\* Variant of CauseMessage that interpolates the error itself (`${error}`).
CauseMessageOfToString(e) ==
    IF e.isError THEN "Error: " \o e.message ELSE e.message

\* error instanceof Error ? error.message : 'Unknown error'
CauseMessage(e) == IF e.isError THEN e.message ELSE "Unknown error"

\* Variant of Wrap that wraps Errors only and rethrows any other value as
\* it is (if (!(error instanceof Error)) throw error).
WrapErrorsOnly(operation, a, e) ==
    IF e.isError THEN ErrorOf(ErrorPrefix(operation, a) \o e.message) ELSE e

Wrap(operation, a, e) == ErrorOf(ErrorPrefix(operation, a) \o CauseMessage(e))

(***************************************************************************)
(* The response of the transport.                                          *)
(***************************************************************************)
StatusOf(code) == [present |-> TRUE, code |-> code]

NoStatus == [present |-> FALSE, code |-> 0]

\* `${response.status}`
StatusText(status) == IF status.present THEN ToString(status.code) ELSE "undefined"

ResponseOf(ok, status) == [received |-> TRUE, ok |-> ok, status |-> status]

NoResponse == [received |-> FALSE, ok |-> FALSE, status |-> NoStatus]

\* Variant of HttpError that leaves the status out of the message.
HttpErrorWithoutStatus(response) ==
    ErrorOf(IF response.ok THEN "HTTP ok" ELSE "HTTP error!")

HttpError(response) == ErrorOf("HTTP error! status: " \o StatusText(response.status))

(***************************************************************************)
(* State.  Every variable is a function of the call slot.                  *)
(*   pc        "idle", "awaitFetch", "awaitJson", "resolved", "rejected"   *)
(*   op, args  the operation called and the arguments supplied             *)
(*   requests  the URLs this call has passed to fetch, in order            *)
(*   response  the response fetch resolved with                            *)
(*   jsonCalls how often this call has invoked response.json()             *)
(*   body      the value response.json() resolved with                     *)
(*   heapBody  that same object as the code's run has left it              *)
(*   caught    the value the catch block caught (`error`), if any          *)
(*   outcomes  the settlements of the call's promise, in order: a returned *)
(*             value or the error it rejected with                         *)
(***************************************************************************)
VARIABLES pc, op, args, requests, response, jsonCalls, body, heapBody, caught,
          outcomes

callVars ==
    <<pc, op, args, requests, response, jsonCalls, body, heapBody, caught, outcomes>>

(***************************************************************************)
(* State of SimpleRateLimiter, the limiter the real-API tests put in front *)
(* of the operations, and of the tasks submitted to it.                    *)
(*   maxConcurrent, delay  the arguments of the constructor (the class of  *)
(*             types.ts has no delay)                                      *)
(*   queue     this.queue: the wrappers not yet started, by their task     *)
(*   running   this.running                                                *)
(*   taskPc    where task t is: "unsubmitted"; "queued" (its wrapper is in *)
(*             the queue); "started" (fn() was called, its promise is      *)
(*             pending); "fulfilled", "failed" (fn's promise has settled   *)
(*             and the wrapper is about to resume); "delaying" (the        *)
(*             wrapper awaits the timer); "finished" (the wrapper is done) *)
(*   promise   the promise limit(fn) returned for task t                   *)
(***************************************************************************)
VARIABLES maxConcurrent, delay, queue, running, taskPc, promise

limiterVars == <<maxConcurrent, delay, queue, running, taskPc, promise>>

vars == <<callVars, limiterVars>>

\* number of tasks submitted to the limiter
NTasks == 3

Tasks == 1..NTasks

NoDelay == [present |-> FALSE, ms |-> 0]

DelayOf(ms) == [present |-> TRUE, ms |-> ms]

NoPromise == [state |-> "none", task |-> 0]

PendingPromise == [state |-> "pending", task |-> 0]

\* resolve(result) and reject(error), with the result or error of task t
ResolvedWith(t) == [state |-> "resolved", task |-> t]

RejectedBy(t) == [state |-> "rejected", task |-> t]

\* new SimpleRateLimiter(maxConcurrent, delay): the fields after construction.
Constructed(m, d) ==
    /\ maxConcurrent = m
    /\ delay = d
    /\ queue = <<>>
    /\ running = 0
    /\ taskPc = [t \in Tasks |-> "unsubmitted"]
    /\ promise = [t \in Tasks |-> NoPromise]

NoArgs ==
    [secid |-> "", engine |-> OmittedString, market |-> OmittedString,
     limit |-> OmittedNumber]

ArgsOf(secid, engine, market, limit) ==
    [secid |-> secid, engine |-> engine, market |-> market, limit |-> limit]

CallsInit ==
    /\ pc = [c \in Calls |-> "idle"]
    /\ op = [c \in Calls |-> "getSecurities"]
    /\ args = [c \in Calls |-> NoArgs]
    /\ requests = [c \in Calls |-> <<>>]
    /\ response = [c \in Calls |-> NoResponse]
    /\ jsonCalls = [c \in Calls |-> 0]
    /\ body = [c \in Calls |-> NoBody]
    /\ heapBody = [c \in Calls |-> NoBody]
    /\ caught = [c \in Calls |-> NoError]
    /\ outcomes = [c \in Calls |-> <<>>]

\* The calls made directly, as the mock tests make them: the limiter is
\* constructed (new SimpleRateLimiter(2)) and nothing is submitted to it.
Init == CallsInit /\ Constructed(2, NoDelay)

\* The promise of call c settles: it resolves with the returned value, or
\* rejects with the error the catch block throws.
Settle(c, completion) ==
    IF completion.thrown
      THEN /\ pc' = [pc EXCEPT ![c] = "rejected"]
           /\ caught' = [caught EXCEPT ![c] = completion.error]
           /\ outcomes' = [outcomes EXCEPT
                 ![c] = Append(@, Thrown(Wrap(op[c], args[c], completion.error)))]
      ELSE /\ pc' = [pc EXCEPT ![c] = "resolved"]
           /\ UNCHANGED caught
           /\ outcomes' = [outcomes EXCEPT ![c] = Append(@, completion)]

\* Variant of Call with a memo of results: a call whose operation and
\* arguments equal those of a resolved call is answered from that call's
\* result, without a GET.
CallCached(c, o, argSet) ==
    /\ pc[c] = "idle"
    /\ \E a \in argSet :
          /\ op' = [op EXCEPT ![c] = o]
          /\ args' = [args EXCEPT ![c] = a]
          /\ IF \E d \in Calls : pc[d] = "resolved" /\ op[d] = o /\ args[d] = a
               THEN /\ pc' = [pc EXCEPT ![c] = "resolved"]
                    /\ outcomes' = [outcomes EXCEPT ![c] =
                          outcomes[CHOOSE d \in Calls :
                                     pc[d] = "resolved" /\ op[d] = o /\ args[d] = a]]
                    /\ UNCHANGED requests
               ELSE /\ pc' = [pc EXCEPT ![c] = "awaitFetch"]
                    /\ requests' = [requests EXCEPT ![c] = Append(@, BuildUrl(o, a))]
                    /\ UNCHANGED outcomes
    /\ UNCHANGED <<response, jsonCalls, body, heapBody, caught>>

\* The caller invokes operation o with arguments a: the URL is built and
\* fetch(url) is invoked; the call is suspended at `await fetch(url)`.
Call(c, o, argSet) ==
    /\ pc[c] = "idle"
    /\ \E a \in argSet :
          /\ op' = [op EXCEPT ![c] = o]
          /\ args' = [args EXCEPT ![c] = a]
          /\ requests' = [requests EXCEPT ![c] = Append(@, BuildUrl(o, a))]
    /\ pc' = [pc EXCEPT ![c] = "awaitFetch"]
    /\ UNCHANGED <<response, jsonCalls, body, heapBody, caught, outcomes>>

\* Variant of FetchReject with a retry loop around fetch: the failure is
\* caught and the GET is awaited again.
FetchRejectRetry(c, failures) ==
    /\ pc[c] = "awaitFetch"
    /\ \E e \in failures : caught' = [caught EXCEPT ![c] = e]
    /\ UNCHANGED <<pc, op, args, requests, response, jsonCalls, body, heapBody, outcomes>>

\* fetch rejects with e (transport failure): the catch block wraps it.
FetchReject(c, failures) ==
    /\ pc[c] = "awaitFetch"
    /\ \E e \in failures : Settle(c, Thrown(e))
    /\ UNCHANGED <<op, args, requests, response, jsonCalls, body, heapBody>>

\* Variant of FetchResolve that decides success by the status code
\* (200 <= response.status && response.status < 300) instead of response.ok.
FetchResolveByStatus(c, responses) ==
    /\ pc[c] = "awaitFetch"
    /\ \E r \in responses :
          /\ response' = [response EXCEPT ![c] = r]
          /\ IF ~(r.status.present /\ 200 <= r.status.code /\ r.status.code < 300)
               THEN /\ Settle(c, Thrown(HttpError(r)))
                    /\ UNCHANGED jsonCalls
               ELSE /\ jsonCalls' = [jsonCalls EXCEPT ![c] = @ + 1]
                    /\ pc' = [pc EXCEPT ![c] = "awaitJson"]
                    /\ UNCHANGED <<caught, outcomes>>
    /\ UNCHANGED <<op, args, requests, body, heapBody>>

\* Variant of FetchResolve that invokes response.json() before it looks at
\* response.ok.
FetchResolveJsonFirst(c, responses) ==
    /\ pc[c] = "awaitFetch"
    /\ \E r \in responses :
          /\ response' = [response EXCEPT ![c] = r]
          /\ jsonCalls' = [jsonCalls EXCEPT ![c] = @ + 1]
          /\ IF ~r.ok
               THEN Settle(c, Thrown(HttpError(r)))
               ELSE /\ pc' = [pc EXCEPT ![c] = "awaitJson"]
                    /\ UNCHANGED <<caught, outcomes>>
    /\ UNCHANGED <<op, args, requests, body, heapBody>>

\* fetch resolves with a response r: a response that is not ok throws the
\* HTTP error (wrapped by the catch block); an ok one has json() invoked
\* and the call is suspended at `await response.json()`.
FetchResolve(c, responses) ==
    /\ pc[c] = "awaitFetch"
    /\ \E r \in responses :
          /\ response' = [response EXCEPT ![c] = r]
          /\ IF ~r.ok
               THEN /\ Settle(c, Thrown(HttpError(r)))
                    /\ UNCHANGED jsonCalls
               ELSE /\ jsonCalls' = [jsonCalls EXCEPT ![c] = @ + 1]
                    /\ pc' = [pc EXCEPT ![c] = "awaitJson"]
                    /\ UNCHANGED <<caught, outcomes>>
    /\ UNCHANGED <<op, args, requests, body, heapBody>>

\* response.json() rejects with e (the body is not valid JSON).
JsonReject(c, failures) ==
    /\ pc[c] = "awaitJson"
    /\ \E e \in failures : Settle(c, Thrown(e))
    /\ UNCHANGED <<op, args, requests, response, jsonCalls, body, heapBody>>

\* Variant of JsonResolve for a `data` held in one variable of the module
\* instead of a local of the call: the body decoded is the one another
\* call has parsed, when there is one.
JsonResolveSharedData(c, bodies) ==
    /\ pc[c] = "awaitJson"
    /\ \E b \in bodies :
          LET others == {d \in Calls \ {c} : body[d].kind # "none"}
              data == IF others = {} THEN b ELSE body[CHOOSE d \in others : TRUE]
          IN  /\ body' = [body EXCEPT ![c] = b]
              /\ heapBody' = [heapBody EXCEPT ![c] = BodyAfterDecode(op[c], b)]
              /\ Settle(c, Decode(op[c], data))
    /\ UNCHANGED <<op, args, requests, response, jsonCalls>>

\* response.json() resolves with a body b: the body is decoded and the call returns
\* (or the decoding throws and the catch block wraps the error).
JsonResolve(c, bodies) ==
    /\ pc[c] = "awaitJson"
    /\ \E b \in bodies :
          /\ body' = [body EXCEPT ![c] = b]
          /\ heapBody' = [heapBody EXCEPT ![c] = BodyAfterDecode(op[c], b)]
          /\ Settle(c, Decode(op[c], b))
    /\ UNCHANGED <<op, args, requests, response, jsonCalls>>

\* The caller has consumed the settled promise; the slot is free for the
\* next call.  Nothing of the finished call is kept.
Return(c) ==
    /\ pc[c] \in {"resolved", "rejected"}
    /\ pc' = [pc EXCEPT ![c] = "idle"]
    /\ args' = [args EXCEPT ![c] = NoArgs]
    /\ op' = [op EXCEPT ![c] = "getSecurities"]
    /\ requests' = [requests EXCEPT ![c] = <<>>]
    /\ response' = [response EXCEPT ![c] = NoResponse]
    /\ jsonCalls' = [jsonCalls EXCEPT ![c] = 0]
    /\ body' = [body EXCEPT ![c] = NoBody]
    /\ heapBody' = [heapBody EXCEPT ![c] = NoBody]
    /\ caught' = [caught EXCEPT ![c] = NoError]
    /\ outcomes' = [outcomes EXCEPT ![c] = <<>>]

(***************************************************************************)
(* Inputs.  An environment names the callers, the arguments they pass and  *)
(* what the transport answers.  The calls share no variable, so the two    *)
(* environments below let one caller run and spend the state space on its  *)
(* inputs: DecodeEnv on the shape of the body, RequestEnv on the arguments *)
(* and on the answers of the transport.                                    *)
(***************************************************************************)
OtherTokens == {"a/b", "x y?&=%"}

Secids == {"SBER", "USD000UTSTOM", "../a?b=1&c"}

Limits == {0, 1, 500}

HttpErrorCodes == {400, 401, 403, 404, 500, 502, 503}

EngineArgs(E) == {OmittedString} \cup {Given(e) : e \in E}

MarketArgs(M) == {OmittedString} \cup {Given(m) : m \in M}

LimitArgs(L) == {OmittedNumber} \cup {Given(l) : l \in L}

ArgsFor(o, E, M, L, S) ==
    CASE o = "getSecurities" ->
           {ArgsOf("", e, m, l) : e \in EngineArgs(E), m \in MarketArgs(M), l \in LimitArgs(L)}
      [] o = "getMarketData" ->
           {ArgsOf(s, e, m, OmittedNumber) : s \in S, e \in EngineArgs(E), m \in MarketArgs(M)}
      [] OTHER ->
           {ArgsOf("", e, m, OmittedNumber) : e \in EngineArgs(E), m \in MarketArgs(M)}

SampleTable ==
    TableOf(ColumnsOf(<<"SECID">>), DataOf(<<ArrayRow(<<StringValue("SBER")>>)>>))

TwoRowTable ==
    TableOf(ColumnsOf(<<"SECID">>),
            DataOf(<<ArrayRow(<<StringValue("SBER")>>), ArrayRow(<<NullValue>>)>>))

\* Bodies without the block of operation o: null, {}, an object with an
\* unrelated key, an object with the block of another operation.
BodiesWithout(o) ==
    {NullBody, EmptyObjectBody, UnexpectedBody}
      \cup {TableBody(k, SampleTable) : k \in ResourceKeys \ {ResourceKey(o)}}

\* Bodies holding the block of operation o, of every shape within the bounds.
BodiesWith(o) == {TableBody(ResourceKey(o), t) : t \in AllTables}

\* Every table shape; default arguments, one transport failure of each kind.
DecodeEnv ==
    [callers |-> {1},
     engines |-> {}, markets |-> {}, limits |-> {}, secids |-> {"SBER"},
     fetchFailures |-> {ErrorOf("Network error")},
     responses |-> {ResponseOf(TRUE, StatusOf(200)), ResponseOf(FALSE, StatusOf(404))},
     jsonFailures |-> {ErrorOf("Invalid JSON")},
     bodies |-> [o \in Operations |-> BodiesWithout(o) \cup BodiesWith(o)]]

\* Every argument and every transport answer, few bodies.
RequestEnv ==
    [callers |-> {1},
     engines |-> Engine \cup OtherTokens, markets |-> Market \cup OtherTokens,
     limits |-> Limits, secids |-> Secids,
     fetchFailures |-> {ErrorOf("Network error"), ErrorOf("Network timeout"),
                        NonErrorThrown},
     responses |-> {ResponseOf(ok, st) :
                      ok \in BOOLEAN,
                      st \in {NoStatus, StatusOf(200)}
                               \cup {StatusOf(code) : code \in HttpErrorCodes}},
     jsonFailures |-> {ErrorOf("Invalid JSON"), NonErrorThrown},
     bodies |-> [o \in Operations |->
                   {EmptyObjectBody, TableBody(ResourceKey(o), SampleTable),
                    TableBody(ResourceKey(o), TwoRowTable)}]]

\* Every call slot in use at once; few arguments, answers and bodies.
ConcurrentEnv ==
    [callers |-> Calls,
     engines |-> {"currency"}, markets |-> {}, limits |-> {}, secids |-> {"SBER"},
     fetchFailures |-> {ErrorOf("Network error")},
     responses |-> {ResponseOf(TRUE, StatusOf(200)), ResponseOf(FALSE, StatusOf(404))},
     jsonFailures |-> {ErrorOf("Invalid JSON")},
     bodies |-> [o \in Operations |->
                   {EmptyObjectBody, TableBody(ResourceKey(o), SampleTable),
                    TableBody(ResourceKey(o), TwoRowTable)}]]

NextIn(env) ==
    /\ \E c \in env.callers :
          \/ \E o \in Operations :
               Call(c, o, ArgsFor(o, env.engines, env.markets, env.limits, env.secids))
          \/ FetchReject(c, env.fetchFailures)
          \/ FetchResolve(c, env.responses)
          \/ JsonReject(c, env.jsonFailures)
          \/ JsonResolve(c, env.bodies[op[c]])
          \/ Return(c)
    /\ UNCHANGED limiterVars

Next == NextIn(DecodeEnv)

Spec == Init /\ [][Next]_vars

NextRequest == NextIn(RequestEnv)

SpecRequest == Init /\ [][NextRequest]_vars

NextConcurrent == NextIn(ConcurrentEnv)

\* Every call slot in use; the transport and the body settle every await.
LiveEnv ==
    [callers |-> Calls,
     engines |-> {}, markets |-> {}, limits |-> {}, secids |-> {"SBER"},
     fetchFailures |-> {ErrorOf("Network error"), ErrorOf("Network timeout")},
     responses |-> {ResponseOf(TRUE, StatusOf(200)), ResponseOf(FALSE, StatusOf(404))},
     jsonFailures |-> {ErrorOf("Invalid JSON")},
     bodies |-> [o \in Operations |->
                   {EmptyObjectBody, TableBody(ResourceKey(o), SampleTable)}]]

NextLive == NextIn(LiveEnv)

\* The promise of fetch(url) of call c settles.
FetchSettles(c) ==
    /\ FetchReject(c, LiveEnv.fetchFailures) \/ FetchResolve(c, LiveEnv.responses)
    /\ UNCHANGED limiterVars

\* The promise of response.json() of call c settles.
JsonSettles(c) ==
    /\ JsonReject(c, LiveEnv.jsonFailures) \/ JsonResolve(c, LiveEnv.bodies[op[c]])
    /\ UNCHANGED limiterVars

\* The calls under a transport whose promises all settle in the end; the
\* continuation of an await runs once its promise has settled.
SpecLive ==
    /\ Init
    /\ [][NextLive]_vars
    /\ \A c \in Calls : WF_vars(FetchSettles(c)) /\ WF_vars(JsonSettles(c))

SpecConcurrent == Init /\ [][NextConcurrent]_vars

(***************************************************************************)
(* SimpleRateLimiter.  limit(fn) pushes a wrapper of fn and calls          *)
(* processQueue(); the wrapper, once started, counts itself in `running`,  *)
(* calls fn() and awaits its promise (then, in the class with a delay, a   *)
(* timer), settles the promise limit returned and, in its finally block,   *)
(* leaves `running` and calls processQueue().  fn is a function that       *)
(* returns a promise (fn: () => Promise<T>); a task is such an fn.  Each   *)
(* action is one synchronous run.                                          *)
(***************************************************************************)
\* Variant of ProcessQueue with `<=` for `<` in the test of `running`.
ProcessQueueOffByOne(q, r) ==
    IF r <= maxConcurrent /\ Len(q) > 0
      THEN [queue |-> Tail(q), running |-> r + 1, started |-> {Head(q)}]
      ELSE [queue |-> q, running |-> r, started |-> {}]

\* processQueue() on the queue q with `running` = r, together with the
\* synchronous start of the wrapper it takes off the queue (running++ and
\* the call of fn): the fields afterwards and the task started, if any.
ProcessQueue(q, r) ==
    IF r < maxConcurrent /\ Len(q) > 0
      THEN [queue |-> Tail(q), running |-> r + 1, started |-> {Head(q)}]
      ELSE [queue |-> q, running |-> r, started |-> {}]

\* limit(fn) for task t: the promise is created, the wrapper is pushed and
\* processQueue() is called.
Limit(t) ==
    /\ taskPc[t] = "unsubmitted"
    /\ LET after == ProcessQueue(Append(queue, t), running)
       IN  /\ queue' = after.queue
           /\ running' = after.running
           /\ taskPc' = [u \in Tasks |->
                 IF u \in after.started THEN "started"
                 ELSE IF u = t THEN "queued"
                 ELSE taskPc[u]]
    /\ promise' = [promise EXCEPT ![t] = PendingPromise]
    /\ UNCHANGED <<maxConcurrent, delay, callVars>>

\* The promise fn() returned for task t is fulfilled.
TaskFulfils(t) ==
    /\ taskPc[t] = "started"
    /\ taskPc' = [taskPc EXCEPT ![t] = "fulfilled"]
    /\ UNCHANGED <<maxConcurrent, delay, queue, running, promise, callVars>>

\* The promise fn() returned for task t is rejected.
TaskFails(t) ==
    /\ taskPc[t] = "started"
    /\ taskPc' = [taskPc EXCEPT ![t] = "failed"]
    /\ UNCHANGED <<maxConcurrent, delay, queue, running, promise, callVars>>

\* Variant of Release with the release of the slot at the end of the try
\* block instead of in finally: a wrapper whose task rejected keeps its slot.
ReleaseInTry(t, settlement) ==
    /\ promise' = [promise EXCEPT ![t] = settlement]
    /\ IF settlement.state = "resolved"
         THEN LET after == ProcessQueue(queue, running - 1)
              IN  /\ queue' = after.queue
                  /\ running' = after.running
                  /\ taskPc' = [u \in Tasks |->
                        IF u \in after.started THEN "started"
                        ELSE IF u = t THEN "finished"
                        ELSE taskPc[u]]
         ELSE /\ taskPc' = [taskPc EXCEPT ![t] = "finished"]
              /\ UNCHANGED <<queue, running>>
    /\ UNCHANGED <<maxConcurrent, delay, callVars>>

\* The end of the wrapper of task t: resolve(result) or reject(error), then
\* the finally block: running-- and processQueue().
Release(t, settlement) ==
    /\ promise' = [promise EXCEPT ![t] = settlement]
    /\ LET after == ProcessQueue(queue, running - 1)
       IN  /\ queue' = after.queue
           /\ running' = after.running
           /\ taskPc' = [u \in Tasks |->
                 IF u \in after.started THEN "started"
                 ELSE IF u = t THEN "finished"
                 ELSE taskPc[u]]
    /\ UNCHANGED <<maxConcurrent, delay, callVars>>

\* The wrapper resumes after `await fn()` with the result: in the class
\* with a delay it sets the timer and awaits it, else it ends.
ResumeFulfilled(t) ==
    /\ taskPc[t] = "fulfilled"
    /\ IF delay.present
         THEN /\ taskPc' = [taskPc EXCEPT ![t] = "delaying"]
              /\ UNCHANGED <<maxConcurrent, delay, queue, running, promise, callVars>>
         ELSE Release(t, ResolvedWith(t))

\* The timer of the delay fires and the wrapper ends.
TimerFires(t) ==
    /\ taskPc[t] = "delaying"
    /\ Release(t, ResolvedWith(t))

\* The wrapper resumes after `await fn()` in its catch block and ends.
ResumeFailed(t) ==
    /\ taskPc[t] = "failed"
    /\ Release(t, RejectedBy(t))

\* The limiters the tests construct: SimpleRateLimiter(2), without a
\* delay, and SimpleRateLimiter(1, 200).
LimiterSizes == {1, 2}

Delays == {NoDelay, DelayOf(200)}

InitLimiter ==
    /\ CallsInit
    /\ \E m \in LimiterSizes, d \in Delays : Constructed(m, d)

\* The promise of the task settles.
TaskSettles(t) == TaskFulfils(t) \/ TaskFails(t)

\* The wrapper of the task runs on: after `await fn()`, after the timer.
WrapperResumes(t) == ResumeFulfilled(t) \/ TimerFires(t) \/ ResumeFailed(t)

NextLimiter ==
    \E t \in Tasks :
        \/ Limit(t)
        \/ TaskFulfils(t)
        \/ TaskFails(t)
        \/ ResumeFulfilled(t)
        \/ TimerFires(t)
        \/ ResumeFailed(t)

\* The limiter with tasks that all settle once started; the event loop
\* runs every continuation and every timer that is due.
SpecLimiter ==
    /\ InitLimiter
    /\ [][NextLimiter]_vars
    /\ \A t \in Tasks : WF_vars(TaskSettles(t)) /\ WF_vars(WrapperResumes(t))

(***************************************************************************)
(* Properties.  The definitions of this part state what is claimed of the  *)
(* program; they are written from the claims, not from the code.           *)
(***************************************************************************)
Listing == {"getSecurities", "getTradingSessions"}

\* The block an operation reads.
BlockName(o) ==
    IF o = "getSecurities" THEN "securities"
    ELSE IF o = "getTradingSessions" THEN "sessions"
    ELSE "marketdata"

Settled(c) == pc[c] \in {"resolved", "rejected"}

\* The settlement of call c.
Result(c) == outcomes[c][1]

\* The response was OK and its body was valid JSON holding an object.
ObjectBody(c) == response[c].ok /\ body[c].kind = "object"

HasBlock(c) == ObjectBody(c) /\ body[c].key = BlockName(op[c])

HasData(c) == HasBlock(c) /\ body[c].table.data.present

ColumnsOfBody(c) == body[c].table.columns.items

RowsOfBody(c) == body[c].table.data.rows

Distinct(seq) ==
    \A i, j \in DOMAIN seq : i # j => seq[i] # seq[j]

Last(S) == CHOOSE i \in S : \A j \in S : j <= i

\* The record of a row, said without an algorithm: one field per column
\* name, holding the cell at the last index that carries the name (the
\* JavaScript value undefined where the row has no such cell).
RowRecord(columns, row) ==
    [name \in {columns[i] : i \in DOMAIN columns} |->
        LET i == Last({j \in DOMAIN columns : columns[j] = name})
        IN  IF i <= Len(row.items) THEN row.items[i] ELSE Undefined]

\* C1: decode correctness.  In a listing call (getSecurities,
\* getTradingSessions) that resolved on a block whose `columns` are n
\* distinct names, the record of every row of length n has exactly the
\* fields columns[i], and field columns[i] is the cell row[i] itself:
\* string, number or null, unchanged.
C1_DecodeCorrectness ==
    \A c \in Calls :
        ( /\ pc[c] = "resolved"
          /\ op[c] \in Listing
          /\ HasData(c)
          /\ body[c].table.columns.present
          /\ Distinct(ColumnsOfBody(c)) )
        => \A k \in DOMAIN RowsOfBody(c) :
              ( /\ RowsOfBody(c)[k].kind = "array"
                /\ Len(RowsOfBody(c)[k].items) = Len(ColumnsOfBody(c)) )
              => /\ k \in DOMAIN Result(c).records
                 /\ DOMAIN Result(c).records[k]
                      = {ColumnsOfBody(c)[i] : i \in DOMAIN ColumnsOfBody(c)}
                 /\ \A i \in DOMAIN ColumnsOfBody(c) :
                       Result(c).records[k][ColumnsOfBody(c)[i]]
                         = RowsOfBody(c)[k].items[i]

\* A getSecurities call has resolved on two columns and two full rows that
\* hold a string, a number and a null.
C1_Witness ==
    \E c \in Calls :
        /\ pc[c] = "resolved"
        /\ op[c] = "getSecurities"
        /\ HasData(c)
        /\ ColumnsOfBody(c) = <<"SECID", "BOARDID">>
        /\ RowsOfBody(c) = << ArrayRow(<<StringValue("SBER"), NumberValue(250)>>),
                              ArrayRow(<<NullValue, StringValue("SBER")>>) >>
        /\ Len(Result(c).records) = 2
        /\ Result(c).records[2]["SECID"] = NullValue

\* C2: order preservation.  A listing call that resolved on a block with
\* `data` returns one record per row, and the record at position k is the
\* record of row k.
C2_OrderPreservation ==
    \A c \in Calls :
        (pc[c] = "resolved" /\ op[c] \in Listing /\ HasData(c))
        => /\ Len(Result(c).records) = Len(RowsOfBody(c))
           /\ \A k \in DOMAIN RowsOfBody(c) :
                 Result(c).records[k] = RowRecord(ColumnsOfBody(c), RowsOfBody(c)[k])

\* A getTradingSessions call has resolved on two rows with different records.
C2_Witness ==
    \E c \in Calls :
        /\ pc[c] = "resolved"
        /\ op[c] = "getTradingSessions"
        /\ HasData(c)
        /\ Len(RowsOfBody(c)) = 2
        /\ Len(Result(c).records) = 2
        /\ Result(c).records[1] # Result(c).records[2]

\* The block is missing, or it has no `data`, or `data` is an empty array.
NothingToDecode(c) ==
    \/ ~HasBlock(c)
    \/ ~HasData(c)
    \/ RowsOfBody(c) = <<>>

OperationPrefix(c) ==
    IF op[c] = "getSecurities" THEN "Failed to fetch securities: "
    ELSE IF op[c] = "getMarketData"
      THEN "Failed to fetch market data for " \o args[c].secid \o ": "
    ELSE "Failed to fetch trading sessions: "

\* The call rejected with exactly one Error, of this message, and no record.
RejectedWith(c, message) ==
    /\ pc[c] = "rejected"
    /\ Len(outcomes[c]) = 1
    /\ Result(c).thrown
    /\ Result(c).error.isError
    /\ Result(c).error.message = message
    /\ Result(c).records = <<>>

\* C5: HTTP-status mapping.  In every operation, a response that is not OK
\* and has status S, for S in 400, 401, 403, 404, 500, 502, 503, makes the
\* call reject with the message `HTTP error! status: S` behind the
\* operation's prefix (once); no record is returned.
C5_HttpStatusMapping ==
    \A c \in Calls :
        ( /\ Settled(c)
          /\ response[c].received
          /\ ~response[c].ok
          /\ response[c].status.present
          /\ response[c].status.code \in {400, 401, 403, 404, 500, 502, 503} )
        => RejectedWith(c, OperationPrefix(c) \o "HTTP error! status: "
                             \o ToString(response[c].status.code))

\* A getMarketData call has settled on a response that is not OK, status 503.
C5_Witness ==
    \E c \in Calls :
        /\ Settled(c)
        /\ op[c] = "getMarketData"
        /\ response[c].received
        /\ ~response[c].ok
        /\ response[c].status = StatusOf(503)

\* fetch(url) rejected: no response was received.
FetchFailed(c) == pc[c] = "rejected" /\ ~response[c].received

\* response.json() rejected: an OK response was received and no body.
JsonFailed(c) ==
    pc[c] = "rejected" /\ response[c].received /\ response[c].ok /\ body[c].kind = "none"

\* C6: error wrapping.  When fetch or json() rejects with an Error of
\* message M, the call rejects with one error whose message is the
\* operation's prefix followed by M.
C6_ErrorWrapping ==
    \A c \in Calls :
        ((FetchFailed(c) \/ JsonFailed(c)) /\ caught[c].isError)
        => RejectedWith(c, OperationPrefix(c) \o caught[c].message)

\* getMarketData('SBER') has rejected after fetch rejected with
\* Error('Network timeout').
C6_Witness ==
    \E c \in Calls :
        /\ FetchFailed(c)
        /\ op[c] = "getMarketData"
        /\ args[c].secid = "SBER"
        /\ caught[c] = ErrorOf("Network timeout")
        /\ Result(c).error.message
             = "Failed to fetch market data for SBER: Network timeout"

\* json() rejected with Error('Invalid JSON') in a getTradingSessions call.
C6_WitnessJson ==
    \E c \in Calls :
        /\ JsonFailed(c)
        /\ op[c] = "getTradingSessions"
        /\ caught[c] = ErrorOf("Invalid JSON")

\* Decoding row k of the block throws.
RowFails(c, k) == DecodeRow(body[c].table.columns, RowsOfBody(c)[k]).thrown

\* C7: one outcome per call, never a partial result.  A call settles at most
\* once, and exactly once when it has ended; a rejected call holds one Error
\* and no records; a listing call in which decoding any row fails rejects,
\* and one that resolves on `data` holds a record for every row.
C7_OneOutcomeNoPartialResult ==
    \A c \in Calls :
        /\ Len(outcomes[c]) <= 1
        /\ Settled(c) <=> Len(outcomes[c]) = 1
        /\ pc[c] = "rejected"
             => /\ Result(c).thrown
                /\ Result(c).error.isError
                /\ Result(c).records = <<>>
        /\ pc[c] = "resolved" => ~Result(c).thrown
        /\ (Settled(c) /\ op[c] \in Listing /\ HasData(c)
              /\ \E k \in DOMAIN RowsOfBody(c) : RowFails(c, k))
             => pc[c] = "rejected"
        /\ (pc[c] = "resolved" /\ op[c] \in Listing /\ HasData(c))
             => Len(Result(c).records) = Len(RowsOfBody(c))

\* A getSecurities call has rejected on a block whose first row decodes and
\* whose second row does not.
C7_Witness ==
    \E c \in Calls :
        /\ pc[c] = "rejected"
        /\ op[c] = "getSecurities"
        /\ HasData(c)
        /\ Len(RowsOfBody(c)) = 2
        /\ ~RowFails(c, 1)
        /\ RowFails(c, 2)
        /\ Len(outcomes[c]) = 1

RECURSIVE JoinComma(_)
JoinComma(seq) ==
    IF Len(seq) = 0 THEN ""
    ELSE IF Len(seq) = 1 THEN seq[1]
    ELSE seq[1] \o "," \o JoinComma(Tail(seq))

AllGiven(c) == args[c].engine.given /\ args[c].market.given

\* C8: the URL of getSecurities(engine, market, limit) is the listing URL
\* of that engine and market with metadata off, the securities block only,
\* the 27 columns of Security comma-joined in their order, start=0 and
\* limit={limit}; it is the one URL passed to fetch.
C8_SecuritiesUrl ==
    \A c \in Calls :
        (pc[c] # "idle" /\ op[c] = "getSecurities" /\ AllGiven(c) /\ args[c].limit.given)
        => /\ Len(SecurityFields) = 27
           /\ requests[c] =
                << "https://iss.moex.com/iss/engines/" \o args[c].engine.v
                     \o "/markets/" \o args[c].market.v
                     \o "/securities.json?iss.meta=off&iss.only=securities&securities.columns="
                     \o JoinComma(SecurityFields)
                     \o "&start=0&limit=" \o ToString(args[c].limit.v) >>

\* getSecurities('interventions', 'psdb', 500) is in flight.
C8_Witness ==
    \E c \in Calls :
        /\ pc[c] = "awaitFetch"
        /\ op[c] = "getSecurities"
        /\ args[c].engine = Given("interventions")
        /\ args[c].market = Given("psdb")
        /\ args[c].limit = Given(500)
        /\ Len(requests[c]) = 1

\* C9: the URL of getMarketData(secid, engine, market) is the URL of the
\* instrument with metadata off and the marketdata block only: no column
\* list, no start, no limit.
C9_MarketDataUrl ==
    \A c \in Calls :
        (pc[c] # "idle" /\ op[c] = "getMarketData" /\ AllGiven(c))
        => requests[c] =
             << "https://iss.moex.com/iss/engines/" \o args[c].engine.v
                  \o "/markets/" \o args[c].market.v
                  \o "/securities/" \o args[c].secid
                  \o ".json?iss.meta=off&iss.only=marketdata" >>

\* getMarketData('USD000UTSTOM', 'currency', 'selt') is in flight.
C9_Witness ==
    \E c \in Calls :
        /\ pc[c] = "awaitFetch"
        /\ op[c] = "getMarketData"
        /\ args[c].secid = "USD000UTSTOM"
        /\ args[c].engine = Given("currency")
        /\ args[c].market = Given("selt")
        /\ Len(requests[c]) = 1

\* C10: the URL of getTradingSessions(engine, market) is the sessions URL
\* of that engine and market with metadata off.
C10_TradingSessionsUrl ==
    \A c \in Calls :
        (pc[c] # "idle" /\ op[c] = "getTradingSessions" /\ AllGiven(c))
        => requests[c] =
             << "https://iss.moex.com/iss/engines/" \o args[c].engine.v
                  \o "/markets/" \o args[c].market.v
                  \o "/sessions.json?iss.meta=off" >>

\* getTradingSessions('currency', 'selt') is in flight.
C10_Witness ==
    \E c \in Calls :
        /\ pc[c] = "awaitFetch"
        /\ op[c] = "getTradingSessions"
        /\ args[c].engine = Given("currency")
        /\ args[c].market = Given("selt")
        /\ Len(requests[c]) = 1

\* The engine, market and limit a call is to use: the supplied argument, and
\* stock, shares and 100 for an argument left out.
EngineUsed(c) == IF args[c].engine.given THEN args[c].engine.v ELSE "stock"

MarketUsed(c) == IF args[c].market.given THEN args[c].market.v ELSE "shares"

LimitUsed(c) == IF args[c].limit.given THEN args[c].limit.v ELSE 100

\* The URL of an operation for an engine, a market, a limit and a secid.
UrlFor(o, secid, engine, market, limit) ==
    "https://iss.moex.com/iss/engines/" \o engine \o "/markets/" \o market
      \o (IF o = "getSecurities"
            THEN "/securities.json?iss.meta=off&iss.only=securities&securities.columns="
                   \o JoinComma(SecurityFields)
                   \o "&start=0&limit=" \o ToString(limit)
          ELSE IF o = "getMarketData"
            THEN "/securities/" \o secid \o ".json?iss.meta=off&iss.only=marketdata"
          ELSE "/sessions.json?iss.meta=off")

\* C11: default substitution.  In each operation the URL passed to fetch is
\* the URL for the supplied engine, market and limit, with stock for an
\* omitted engine, shares for an omitted market and (getSecurities) 100 for
\* an omitted limit; a supplied argument is used as it is, so a supplied
\* limit of 0 gives limit=0.
C11_DefaultSubstitution ==
    \A c \in Calls :
        pc[c] # "idle"
        => requests[c] =
             << UrlFor(op[c], args[c].secid, EngineUsed(c), MarketUsed(c), LimitUsed(c)) >>

\* getSecurities(undefined, 'bonds', 0) is in flight with limit=0 in its URL,
\* on the engine stock.
C11_Witness ==
    \E c \in Calls :
        /\ pc[c] = "awaitFetch"
        /\ op[c] = "getSecurities"
        /\ ~args[c].engine.given
        /\ args[c].market = Given("bonds")
        /\ args[c].limit = Given(0)
        /\ requests[c] = << UrlFor("getSecurities", "", "stock", "bonds", 0) >>

\* C12: the quote decodes the first row only.  A getMarketData call whose
\* `marketdata.data` is not empty, with `columns` an array and data[0] an
\* array, resolves with one record, the record of data[0]; whatever the
\* rows data[1], data[2], ... are (a null among them too), the result is
\* the same.
C12_QuoteFirstRowOnly ==
    \A c \in Calls :
        ( /\ Settled(c)
          /\ op[c] = "getMarketData"
          /\ HasData(c)
          /\ RowsOfBody(c) # <<>>
          /\ body[c].table.columns.present
          /\ RowsOfBody(c)[1].kind = "array" )
        => /\ pc[c] = "resolved"
           /\ Result(c).kind = "record"
           /\ Result(c).records = << RowRecord(ColumnsOfBody(c), RowsOfBody(c)[1]) >>

\* A getMarketData call has resolved on two rows whose records differ.
C12_Witness ==
    \E c \in Calls :
        /\ pc[c] = "resolved"
        /\ op[c] = "getMarketData"
        /\ HasData(c)
        /\ ColumnsOfBody(c) = <<"SECID", "BOARDID">>
        /\ RowsOfBody(c) = << ArrayRow(<<StringValue("SBER"), NumberValue(250)>>),
                              ArrayRow(<<NullValue, NullValue>>) >>
        /\ Result(c).records[1]["BOARDID"] = NumberValue(250)

\* A getMarketData call has resolved although its second row is null.
C12_WitnessNullRow ==
    \E c \in Calls :
        /\ pc[c] = "resolved"
        /\ op[c] = "getMarketData"
        /\ HasData(c)
        /\ Len(RowsOfBody(c)) = 2
        /\ RowsOfBody(c)[2] = NullRow
        /\ Len(ColumnsOfBody(c)) > 0

\* The number of rows the response holds for the call.
RowCount(c) == IF HasData(c) THEN Len(RowsOfBody(c)) ELSE 0

C14_OneGetPerCall ==
    \A c \in Calls :
        /\ pc[c] = "idle" => requests[c] = <<>>
        /\ pc[c] # "idle" => Len(requests[c]) = 1
        /\ jsonCalls[c] <= 1

\* A call has resolved, and a second call of the same operation with the
\* same arguments has issued its own GET of the same URL.
C14_Witness ==
    \E c, d \in Calls :
        /\ c # d
        /\ pc[c] = "resolved"
        /\ pc[d] = "awaitFetch"
        /\ op[d] = op[c]
        /\ args[d] = args[c]
        /\ requests[d] = requests[c]
        /\ Len(requests[d]) = 1

\* A call has rejected after fetch failed, with one GET issued.
C14_WitnessFailedGet ==
    \E c \in Calls : FetchFailed(c) /\ Len(requests[c]) = 1

\* A part of the table structure is missing or empty: the resource key,
\* `columns`, `data`, or the rows of `data`.
StructureMissingOrEmpty(c) ==
    \/ ~HasBlock(c)
    \/ ~body[c].table.columns.present
    \/ ~HasData(c)
    \/ RowsOfBody(c) = <<>>

\* C15: decoding never throws for missing or empty structure.  A call whose
\* OK response holds a JSON object in which the resource key, `columns`,
\* `data` or the rows are missing or empty resolves with the empty array
\* (listing, sessions) or with null (quote); it never rejects.
C15_DecodingNeverThrows ==
    \A c \in Calls :
        (Settled(c) /\ ObjectBody(c) /\ StructureMissingOrEmpty(c))
        => /\ pc[c] = "resolved"
           /\ ~Result(c).thrown
           /\ Result(c).kind = (IF op[c] \in Listing THEN "array" ELSE "null")
           /\ Result(c).records = <<>>

Min(a, b) == IF a <= b THEN a ELSE b

\* The rows a call decodes: every row for a listing, data[0] for the quote.
DecodedRows(c) ==
    IF ~HasData(c) THEN {}
    ELSE IF op[c] \in Listing THEN DOMAIN RowsOfBody(c)
    ELSE DOMAIN RowsOfBody(c) \cap {1}

\* The record the call returned for row k.
RecordOfRow(c, k) == Result(c).records[k]

\* `columns` is an array and every row of `data` is an array.
WellFormedTable(c) ==
    /\ HasData(c)
    /\ body[c].table.columns.present
    /\ \A k \in DOMAIN RowsOfBody(c) : RowsOfBody(c)[k].kind = "array"

\* C16: a length mismatch is zipped to the shorter length.  A call settled
\* on a table of array rows does not fail, and the record of a row holds
\* exactly the fields columns[i] for i below both lengths, each with the
\* cell row[i]: for a short row no field beyond the row's length, for a
\* long row no value beyond the columns.
C16_ZipToShorter ==
    \A c \in Calls :
        (Settled(c) /\ WellFormedTable(c))
        => /\ pc[c] = "resolved"
           /\ \A k \in DecodedRows(c) :
                 LET n == Min(Len(ColumnsOfBody(c)), Len(RowsOfBody(c)[k].items))
                 IN  /\ DOMAIN RecordOfRow(c, k) = {ColumnsOfBody(c)[i] : i \in 1..n}
                     /\ Distinct(ColumnsOfBody(c))
                           => \A i \in 1..n :
                                 RecordOfRow(c, k)[ColumnsOfBody(c)[i]]
                                   = RowsOfBody(c)[k].items[i]

\* The names in the `columns` of the response of call c.
ColumnNamesOfBody(c) == {ColumnsOfBody(c)[i] : i \in DOMAIN ColumnsOfBody(c)}

\* C17: field presence mirrors columns.  In every record a call of any of
\* the three operations returned, the set of field names is the set of the
\* names in the response's `columns`, whatever the length of the row the
\* record was made from.
C17_FieldsMirrorColumns ==
    \A c \in Calls :
        pc[c] = "resolved"
        => \A k \in DOMAIN Result(c).records :
              DOMAIN Result(c).records[k] = ColumnNamesOfBody(c)

\* A getTradingSessions call has resolved on two columns, a row of one cell
\* and an empty row, with both fields in both records.
C17_Witness ==
    \E c \in Calls :
        /\ pc[c] = "resolved"
        /\ op[c] = "getTradingSessions"
        /\ HasData(c)
        /\ ColumnsOfBody(c) = <<"SECID", "BOARDID">>
        /\ RowsOfBody(c) = << ArrayRow(<<NumberValue(250)>>), ArrayRow(<<>>) >>
        /\ Len(Result(c).records) = 2
        /\ DOMAIN Result(c).records[2] = {"SECID", "BOARDID"}

\* A getMarketData call has resolved on one column and a row of two cells.
C17_WitnessLongRow ==
    \E c \in Calls :
        /\ pc[c] = "resolved"
        /\ op[c] = "getMarketData"
        /\ HasData(c)
        /\ ColumnsOfBody(c) = <<"BOARDID">>
        /\ Len(RowsOfBody(c)) > 0
        /\ Len(RowsOfBody(c)[1].items) = 2
        /\ DOMAIN Result(c).records[1] = {"BOARDID"}

\* json() has resolved for call c: the call holds a parsed body.
Parsed(c) == body[c].kind # "none"

CauseText(c) == IF caught[c].isError THEN caught[c].message ELSE "Unknown error"

\* The outcome of call c run alone: a function of its own operation and
\* arguments and of what the transport answered to it, for a response whose
\* table, if any, is well formed.
AloneOutcome(c) ==
    IF ~response[c].received \/ (response[c].ok /\ ~Parsed(c))
      THEN Thrown(ErrorOf(OperationPrefix(c) \o CauseText(c)))
    ELSE IF ~response[c].ok
      THEN Thrown(ErrorOf(OperationPrefix(c) \o "HTTP error! status: "
                            \o ToString(response[c].status.code)))
    ELSE IF op[c] \in Listing
      THEN Returned("array", [k \in 1..RowCount(c) |->
                                 RowRecord(ColumnsOfBody(c), RowsOfBody(c)[k])])
    ELSE IF RowCount(c) = 0
      THEN Returned("null", <<>>)
    ELSE Returned("record", << RowRecord(ColumnsOfBody(c), RowsOfBody(c)[1]) >>)

\* Call c has its own URL, and its outcome, once settled, is its outcome
\* run alone.
OwnOutcome(c) ==
    /\ pc[c] # "idle"
         => requests[c] =
              << UrlFor(op[c], args[c].secid, EngineUsed(c), MarketUsed(c), LimitUsed(c)) >>
    /\ (Settled(c) /\ (HasData(c) => WellFormedTable(c)))
         => outcomes[c] = << AloneOutcome(c) >>

\* What the model holds of call c.
StateOf(c) ==
    <<pc[c], op[c], args[c], requests[c], response[c], jsonCalls[c], body[c],
      heapBody[c], caught[c], outcomes[c]>>

\* A step changes the state of one call and leaves every other call's URL,
\* response, body and records as they were.
OneCallPerStep ==
    \A c, d \in Calls :
        (c # d /\ StateOf(c)' # StateOf(c)) => StateOf(d)' = StateOf(d)

\* C19: independence under concurrency.  With every call slot in use and
\* the completions of fetch and json() interleaved in any order, each call
\* has the URL of its own arguments and settles with the outcome it has
\* when run alone against the same response, and no step of one call
\* changes anything of another.
C19_IndependentCalls ==
    /\ [](\A c \in Calls : OwnOutcome(c))
    /\ [][OneCallPerStep]_vars

\* Two calls of different operations are settled at once: one resolved with
\* the two records of its own response, the other rejected on its own HTTP
\* status.
C19_Witness ==
    \E c, d \in Calls :
        /\ c # d
        /\ op[c] # op[d]
        /\ pc[c] = "resolved"
        /\ RowCount(c) = 2
        /\ Len(Result(c).records) = 2
        /\ pc[d] = "rejected"
        /\ response[d].received
        /\ ~response[d].ok

\* Two calls are suspended at `await response.json()` at once.
C19_WitnessInFlight ==
    \E c, d \in Calls : c # d /\ pc[c] = "awaitJson" /\ pc[d] = "awaitJson"

\* The places of a call, in the order the code passes them.
Rank(p) ==
    IF p = "idle" THEN 0
    ELSE IF p = "awaitFetch" THEN 1
    ELSE IF p = "awaitJson" THEN 2
    ELSE 3

\* What holds of call c in a state: the GET has its URL, json() has been
\* invoked only on an OK response, a body is held only after json() was
\* invoked, and records are returned only from a parsed body.
StepsInOrder(c) ==
    /\ pc[c] # "idle" => Len(requests[c]) = 1
    /\ response[c].received => Len(requests[c]) = 1
    /\ jsonCalls[c] > 0 => (response[c].received /\ response[c].ok)
    /\ pc[c] = "awaitJson" => jsonCalls[c] = 1
    /\ Parsed(c) => jsonCalls[c] = 1
    /\ pc[c] = "resolved" => Parsed(c)
    /\ (response[c].received /\ ~response[c].ok)
         => /\ jsonCalls[c] = 0
            /\ ~Parsed(c)
            /\ pc[c] = "rejected"
            /\ Result(c).records = <<>>

\* What holds of a step of call c: a call moves forward only, from the GET
\* to the parse to the settlement, or is given back by its caller once
\* settled; it reaches the parse only through an OK response, and it
\* resolves only from the parse.
StepForward(c) ==
    /\ pc'[c] # pc[c]
         => \/ Rank(pc'[c]) > Rank(pc[c])
            \/ Settled(c) /\ pc'[c] = "idle"
    /\ (pc[c] = "idle" /\ pc'[c] # "idle")
         => pc'[c] = "awaitFetch" /\ Len(requests'[c]) = 1 /\ ~response'[c].received
    /\ pc'[c] = "awaitJson" => pc[c] \in {"awaitFetch", "awaitJson"}
    /\ (pc[c] # "resolved" /\ pc'[c] = "resolved") => pc[c] = "awaitJson"

\* C20: step ordering within one call.  The URL is built before the GET,
\* the HTTP success check comes before the body is parsed, and decoding
\* comes only after a successful parse; on a response that is not OK
\* json() is never invoked and nothing is decoded.
C20_StepOrdering ==
    /\ [](\A c \in Calls : StepsInOrder(c))
    /\ [][\A c \in Calls : StepForward(c)]_vars

\* A getSecurities call has rejected on a response that is not OK although
\* its status is 200; json() was not invoked.
C20_Witness ==
    \E c \in Calls :
        /\ pc[c] = "rejected"
        /\ op[c] = "getSecurities"
        /\ response[c].received
        /\ ~response[c].ok
        /\ response[c].status = StatusOf(200)
        /\ jsonCalls[c] = 0
        /\ ~Parsed(c)

\* The fixed text of an operation's URL after the market: everything in it
\* but the secid and the limit is the same for every call.
UrlTail(o, secid, limitText) ==
    IF o = "getSecurities"
      THEN "/securities.json?iss.meta=off&iss.only=securities&securities.columns="
             \o JoinComma(SecurityFields) \o "&start=0&limit=" \o limitText
    ELSE IF o = "getMarketData"
      THEN "/securities/" \o secid \o ".json?iss.meta=off&iss.only=marketdata"
    ELSE "/sessions.json?iss.meta=off"

\* The decimal text of the limit a getSecurities call supplied.
LimitText(c) == IF args[c].limit.given THEN ToString(args[c].limit.v) ELSE "100"

\* C21: verbatim pass-through.  The engine, market and secid a call supplies
\* stand in its URL character for character, enumerated value or not (a
\* slash, a space, `?`, `&`, `=`, `%` and `..` included), and the limit as
\* its decimal text; around them the URL is the fixed text of the operation,
\* the same for every value.
C21_VerbatimPassThrough ==
    \A c \in Calls :
        (pc[c] # "idle" /\ AllGiven(c))
        => /\ Len(requests[c]) = 1
           /\ requests[c][1] =
                "https://iss.moex.com/iss/engines/" \o args[c].engine.v
                  \o "/markets/" \o args[c].market.v
                  \o UrlTail(op[c], args[c].secid, LimitText(c))

\* getMarketData('../a?b=1&c', 'a/b', 'x y?&=%') is in flight with exactly
\* these characters in its URL.
C21_Witness ==
    \E c \in Calls :
        /\ pc[c] = "awaitFetch"
        /\ op[c] = "getMarketData"
        /\ args[c].secid = "../a?b=1&c"
        /\ args[c].engine = Given("a/b")
        /\ args[c].market = Given("x y?&=%")
        /\ requests[c] =
             << "https://iss.moex.com/iss/engines/a/b/markets/x y?&=%/securities/../a?b=1&c.json?iss.meta=off&iss.only=marketdata" >>

\* A call leaves `await fetch(url)` only when fetch has settled: with a
\* response, or with the failure the call rejects on.  Nothing else (no
\* timeout, no cancellation) ends the wait.
OnlyFetchEndsTheWait ==
    \A c \in Calls :
        (pc[c] = "awaitFetch" /\ pc'[c] # "awaitFetch")
        => \/ response'[c].received
           \/ pc'[c] = "rejected" /\ caught'[c] # NoError

\* A call leaves `await response.json()` only when json() has settled.
OnlyJsonEndsTheWait ==
    \A c \in Calls :
        (pc[c] = "awaitJson" /\ pc'[c] # "awaitJson")
        => \/ body'[c].kind # "none"
           \/ pc'[c] = "rejected" /\ caught'[c] # NoError

\* C22: termination.  Provided fetch and, when reached, json() settle in
\* the end, every call that was made settles in the end (resolves or
\* rejects); and the code adds no timeout or cancellation: a call leaves
\* an await only by the settling of the awaited promise, so a call whose
\* fetch never settles never settles.
C22_Termination ==
    /\ \A c \in Calls : (pc[c] \in {"awaitFetch", "awaitJson"}) ~> Settled(c)
    /\ [][OnlyFetchEndsTheWait /\ OnlyJsonEndsTheWait]_vars

\* Every call slot holds a settled call: one resolved after both awaits,
\* another rejected at fetch.
C22_Witness ==
    /\ \A c \in Calls : Settled(c)
    /\ \E c \in Calls : pc[c] = "resolved" /\ jsonCalls[c] = 1 /\ Parsed(c)
    /\ \E c \in Calls : FetchFailed(c)

\* The status of the response as the text of a message.
StatusAsText(c) ==
    IF response[c].status.present THEN ToString(response[c].status.code)
    ELSE "undefined"

\* C23: the HTTP success decision depends on `ok` alone.  A response with
\* ok = true has json() invoked and, once parsed, is decoded into the
\* result of its body, whatever its status (404, 500, absent); a response
\* with ok = false makes the call reject, whatever its status (200 too);
\* the status appears only as text in the message of that error.
C23_OkFlagDecides ==
    \A c \in Calls :
        response[c].received
        => /\ response[c].ok
                => /\ jsonCalls[c] = 1
                   /\ pc[c] = "rejected" => JsonFailed(c)
                   /\ Parsed(c)
                        => pc[c] = "resolved" /\ outcomes[c] = << AloneOutcome(c) >>
           /\ ~response[c].ok
                => RejectedWith(c, OperationPrefix(c) \o "HTTP error! status: "
                                     \o StatusAsText(c))

\* A getSecurities call has resolved with a record on a response with
\* ok = true and no status.
C23_Witness ==
    \E c \in Calls :
        /\ pc[c] = "resolved"
        /\ op[c] = "getSecurities"
        /\ response[c] = ResponseOf(TRUE, NoStatus)
        /\ Len(Result(c).records) = 1

\* A call has resolved on ok = true with status 500, and a call can reject
\* on ok = false with status 200.
C23_WitnessOkWithErrorStatus ==
    \E c \in Calls :
        /\ pc[c] = "resolved"
        /\ response[c] = ResponseOf(TRUE, StatusOf(500))
        /\ Len(Result(c).records) = 2

C23_WitnessNotOkWithoutStatus ==
    \E c \in Calls :
        /\ pc[c] = "rejected"
        /\ op[c] = "getTradingSessions"
        /\ response[c] = ResponseOf(FALSE, NoStatus)
        /\ Result(c).error.message
             = "Failed to fetch trading sessions: HTTP error! status: undefined"

\* C24: the quote is null exactly when there is nothing to decode.  A
\* getMarketData call settled on an OK response holding a JSON object
\* resolves to null if and only if `marketdata` is absent, its `data` is
\* absent, or its `data` is empty; whenever `data` has at least one row it
\* resolves to a record, the empty record when `columns` is empty, never
\* to null.
C24_QuoteNullIffNoRow ==
    \A c \in Calls :
        (Settled(c) /\ op[c] = "getMarketData" /\ ObjectBody(c))
        => /\ (pc[c] = "resolved" /\ Result(c).kind = "null") <=> NothingToDecode(c)
           /\ RowCount(c) >= 1
                => /\ pc[c] = "resolved"
                   /\ Result(c).kind = "record"
                   /\ Len(Result(c).records) = 1
                   /\ ColumnsOfBody(c) = <<>> => DOMAIN Result(c).records[1] = {}

\* row[j] as JavaScript reads it (j counted from 1): the cell, or undefined
\* past the end of the row.
RowAt(row, j) == IF j <= Len(row.items) THEN row.items[j] ELSE Undefined

\* C25: duplicate column names.  When `columns` holds the same name at
\* indices i < j, the record of a decoded row holds that name once, with
\* the value row[j] of its last occurrence, and so the record has fewer
\* fields than `columns` has entries.
C25_DuplicateColumnsLastWins ==
    \A c \in Calls :
        (pc[c] = "resolved" /\ WellFormedTable(c))
        => \A k \in DecodedRows(c) :
              \A i, j \in DOMAIN ColumnsOfBody(c) :
                  ( /\ i < j
                    /\ ColumnsOfBody(c)[i] = ColumnsOfBody(c)[j]
                    /\ \A m \in DOMAIN ColumnsOfBody(c) :
                          m > j => ColumnsOfBody(c)[m] # ColumnsOfBody(c)[j] )
                  => /\ ColumnsOfBody(c)[j] \in DOMAIN RecordOfRow(c, k)
                     /\ RecordOfRow(c, k)[ColumnsOfBody(c)[j]] = RowAt(RowsOfBody(c)[k], j)
                     /\ Cardinality(DOMAIN RecordOfRow(c, k)) < Len(ColumnsOfBody(c))

\* A getSecurities call has resolved on columns ['SECID', 'SECID'] and the
\* row ['SBER', 250] with the record { SECID: 250 }.
C25_Witness ==
    \E c \in Calls :
        /\ pc[c] = "resolved"
        /\ op[c] = "getSecurities"
        /\ HasData(c)
        /\ ColumnsOfBody(c) = <<"SECID", "SECID">>
        /\ RowsOfBody(c) = << ArrayRow(<<StringValue("SBER"), NumberValue(250)>>) >>
        /\ DOMAIN Result(c).records[1] = {"SECID"}
        /\ Result(c).records[1]["SECID"] = NumberValue(250)

\* The transport step of call c failed with a thrown value that is not an
\* Error (a string, say).
FailedWithNonError(c) ==
    /\ FetchFailed(c) \/ JsonFailed(c)
    /\ ~caught[c].isError

\* C26: a thrown value that is not an Error.  When fetch or json() fails
\* with a value that is not an Error instance, the call still rejects with
\* an Error, whose message is the operation's prefix followed by
\* `Unknown error`; the thrown value is not what the call rejects with and
\* its text is not in the message.
C26_UnknownError ==
    \A c \in Calls :
        FailedWithNonError(c)
        => /\ RejectedWith(c, OperationPrefix(c) \o "Unknown error")
           /\ Result(c).error # caught[c]
           /\ Result(c).error.message # OperationPrefix(c) \o caught[c].message

\* getTradingSessions has rejected after json() threw a string.
C26_Witness ==
    \E c \in Calls :
        /\ JsonFailed(c)
        /\ op[c] = "getTradingSessions"
        /\ caught[c] = NonErrorThrown
        /\ Result(c).error.message = "Failed to fetch trading sessions: Unknown error"

\* getMarketData('SBER') has rejected after fetch threw a string.
C26_WitnessFetch ==
    \E c \in Calls :
        /\ FetchFailed(c)
        /\ op[c] = "getMarketData"
        /\ args[c].secid = "SBER"
        /\ caught[c] = NonErrorThrown
        /\ Result(c).error.message = "Failed to fetch market data for SBER: Unknown error"

\* The tasks started and not yet finished: fn() was called and its promise
\* is still pending.
InFlight == {t \in Tasks : taskPc[t] = "started"}

\* The tasks whose wrapper was started and has not ended.
Occupying == {t \in Tasks : taskPc[t] \in {"started", "fulfilled", "failed", "delaying"}}

\* C27: the bound of the rate limiter.  For SimpleRateLimiter(maxConcurrent)
\* and any interleaving of limit() submissions and task completions, the
\* number of tasks started and not yet finished never exceeds
\* maxConcurrent, nor does the number of wrappers started and not ended,
\* which is what `running` counts (at most 2 for the limiter built with 2).
C27_LimiterBound ==
    /\ Cardinality(InFlight) <= maxConcurrent
    /\ Cardinality(Occupying) <= maxConcurrent
    /\ running = Cardinality(Occupying)
    /\ maxConcurrent = 2 => Cardinality(InFlight) <= 2

\* The limiter built with 2 has two tasks in flight and a third waiting in
\* the queue.
C27_Witness ==
    /\ maxConcurrent = 2
    /\ Cardinality(InFlight) = 2
    /\ Len(queue) = 1
    /\ running = 2

\* The task was submitted with limit(fn).
Submitted(t) == taskPc[t] # "unsubmitted"

\* fn() of the task was called.
Started(t) == taskPc[t] \notin {"unsubmitted", "queued"}

\* The promise limit(fn) returned has settled.
PromiseSettled(t) == promise[t].state \in {"resolved", "rejected"}

\* What holds of the limiter in every state: a submitted task has its
\* promise; a settled promise holds the result or the error of its own
\* task, whose wrapper has ended; `running` counts the wrappers started and
\* not ended, whether their tasks resolve or reject; and while a task waits
\* in the queue, `running` is maxConcurrent.
LimiterInvariant ==
    /\ \A t \in Tasks :
          /\ Submitted(t) <=> promise[t].state # "none"
          /\ PromiseSettled(t) <=> taskPc[t] = "finished"
          /\ PromiseSettled(t) => promise[t].task = t
          /\ taskPc[t] = "queued" <=> \E i \in DOMAIN queue : queue[i] = t
    /\ running = Cardinality(Occupying)
    /\ Len(queue) > 0 => running = maxConcurrent

\* What holds of every step: a promise resolves only after its task was
\* fulfilled and rejects only after its task was rejected; the wrapper that
\* ends gives up its slot in that very step, after a rejection as after a
\* result, and the slot goes to the task at the head of the queue, if any.
LimiterStep ==
    \A t \in Tasks :
        /\ (promise[t].state = "pending" /\ promise'[t].state = "resolved")
             => taskPc[t] \in {"fulfilled", "delaying"}
        /\ (promise[t].state = "pending" /\ promise'[t].state = "rejected")
             => taskPc[t] = "failed"
        /\ (taskPc[t] # "finished" /\ taskPc'[t] = "finished")
             => /\ PromiseSettled(t)'
                /\ t \notin Occupying'
                /\ IF Len(queue) > 0
                     THEN /\ running' = running
                          /\ taskPc'[Head(queue)] = "started"
                          /\ queue' = Tail(queue)
                     ELSE running' = running - 1

\* C28: progress of the rate limiter.  Provided every started task settles,
\* every task submitted to limit is started in the end and the promise
\* limit returned settles in the end, with the result or the error of that
\* very task; a task that rejects releases its slot exactly as one that
\* resolves; and whenever the queue is not empty, `running` equals
\* maxConcurrent.
C28_LimiterProgress ==
    /\ \A t \in Tasks : Submitted(t) ~> Started(t)
    /\ \A t \in Tasks : Submitted(t) ~> PromiseSettled(t)
    /\ []LimiterInvariant
    /\ [][LimiterStep]_vars

\* In the limiter of size 1 a task has rejected and its wrapper has ended,
\* the next task has been started in its place and a third one waits.
C28_Witness ==
    /\ maxConcurrent = 1
    /\ \E a, b, d \in Tasks :
          /\ promise[a].state = "rejected"
          /\ taskPc[a] = "finished"
          /\ taskPc[b] = "started"
          /\ taskPc[d] = "queued"
          /\ running = 1

\* Every task submitted has ended, one with an error and one with a result.
C28_WitnessAllSettled ==
    /\ \A t \in Tasks : PromiseSettled(t)
    /\ \E t \in Tasks : promise[t] = RejectedBy(t)
    /\ \E t \in Tasks : promise[t] = ResolvedWith(t)

=============================================================================
